---- MODULE Spec2Model ----
(***************************************************************************)
(* A model of four leaf UI bindings of the InvokeAI web front-end:         *)
(*   - SettingsLogLevelSelect   (the log-level selector)                   *)
(*   - CanvasAddEntityButtons   (the five "add entity" buttons)            *)
(*   - addEnqueueRequestedNodes (the listener that enqueues a batch)       *)
(*   - CanvasEntityOpacity      (the opacity number input and slider)      *)
(* The four are independent consumers of one store, so each has its own    *)
(* next-state relation and specification over the shared variables.        *)
(*                                                                         *)
(* JavaScript values.  null is the record Null, NaN the record NaN, and a  *)
(* number x the record Num(n) where n is x in fixed point with two         *)
(* decimals (n = x * 100): the slider value 25 is Num(2500), the opacity   *)
(* 0.25 is Num(25).  Division and multiplication by 100 are exact on the   *)
(* integer slider values and typed integers the model draws.               *)
(***************************************************************************)
EXTENDS Integers, Sequences, FiniteSets

VARIABLES
    \* ---- system slice and the log-level selector
    logLevel,                  \* s.system.logLevel
    logDispatched,             \* actions the selector has dispatched, in order
    onChangeCalls,             \* arguments onChange was called with, in order
    \* ---- CanvasAddEntityButtons
    defaultControlAdapter,     \* useDefaultControlAdapter()
    defaultIPAdapter,          \* useDefaultIPAdapter()
    canvasDispatched,          \* actions the buttons have dispatched, in order
    clicks,                    \* button clicks, in order, with the defaults then
    \* ---- the enqueue listener
    nodes,                     \* state.nodes
    iterations,                \* state.generation.iterations
    actionLog,                 \* store actions processed, with the state then
    requests,                  \* enqueueBatch requests initiated, in order
    mutationCache,             \* the mutation entry under fixedCacheKey
    \* ---- CanvasEntityOpacity
    entities,                  \* s.canvasV2: entity id -> entity
    selectedEntityIdentifier,  \* s.canvasV2.selectedEntityIdentifier
    localOpacity,              \* useState: the displayed value
    effectDep,                 \* the opacity the sync effect last ran for
    dispatched,                \* actions dispatched by the latest handler call
    lastEvent                  \* the latest event and its arguments

logVars == <<logLevel, logDispatched, onChangeCalls>>
addVars == <<defaultControlAdapter, defaultIPAdapter, canvasDispatched, clicks>>
enqueueVars == <<nodes, iterations, actionLog, requests, mutationCache>>
opacityVars == <<entities, selectedEntityIdentifier, localOpacity, effectDep,
                 dispatched, lastEvent>>
vars == <<logVars, addVars, enqueueVars, opacityVars>>

\* ---- bounds of the model
MaxCalls == 3
MaxClicks == 3
MaxActions == 4
MaxIterations == 2
SampleWidth == 3

\* ---- JavaScript values
Null == [tag |-> "null"]
Undefined == [tag |-> "undefined"]
NaN == [tag |-> "nan"]
Num(n) == [tag |-> "num", val |-> n]
Str(s) == [tag |-> "str", val |-> s]
\* the number x, an integer, in fixed point
N(x) == Num(x * 100)

(***************************************************************************)
(* SettingsLogLevelSelect                                                  *)
(***************************************************************************)

\* zLogLevel.options
zLogLevelOptions == {"trace", "debug", "info", "warn", "error", "fatal"}

\* isLogLevel(v): zLogLevel.safeParse(v).success
isLogLevel(v) == v.tag = "str" /\ v.val \in zLogLevelOptions

\* logLevelChanged(payload), the action creator
logLevelChanged(payload) == [type |-> "system/logLevelChanged", payload |-> payload]

\* the systemSlice reducer of logLevelChanged: state.logLevel = action.payload
systemReducer(level, action) ==
    IF action.type = "system/logLevelChanged" THEN action.payload.val ELSE level

\* v?.value
OptValue(v) == IF v = Null \/ v = Undefined THEN Undefined ELSE v.value

\* what the combobox can hand to onChange: null, or an option object whose
\* value is a log level, another string, or not a string at all
ComboboxInputs ==
    {Null}
    \cup {[label |-> s, value |-> Str(s)] : s \in zLogLevelOptions \cup {"verbose", ""}}
    \cup {[label |-> "n", value |-> N(3)], [label |-> "u", value |-> Undefined]}

\* a guard that only checks that a string was selected
onChange_unguarded(v) ==
    IF OptValue(v).tag # "str"
    THEN UNCHANGED <<logLevel, logDispatched>>
    ELSE /\ logDispatched' = Append(logDispatched, logLevelChanged(v.value))
         /\ logLevel' = systemReducer(logLevel, logLevelChanged(v.value))

\* onChange of the combobox (the dispatch runs the reducer)
onChange(v) ==
    IF ~isLogLevel(OptValue(v))
    THEN UNCHANGED <<logLevel, logDispatched>>
    ELSE /\ logDispatched' = Append(logDispatched, logLevelChanged(v.value))
         /\ logLevel' = systemReducer(logLevel, logLevelChanged(v.value))

LogLevelOnChange ==
    \E v \in ComboboxInputs :
        /\ Len(onChangeCalls) < MaxCalls
        /\ onChangeCalls' = Append(onChangeCalls, v)
        /\ onChange(v)
        /\ UNCHANGED <<addVars, enqueueVars, opacityVars>>

(***************************************************************************)
(* CanvasAddEntityButtons                                                  *)
(***************************************************************************)

\* the values the default-adapter hooks can return (they follow the models
\* that are installed and selected)
ControlAdapters == {[type |-> "controlnet", model |-> m] : m \in {"none", "canny"}}
IPAdapters == {[type |-> "ip_adapter", model |-> m] : m \in {"none", "plus"}}

inpaintMaskAdded == [type |-> "canvasV2/inpaintMaskAdded"]
rgAdded == [type |-> "canvasV2/rgAdded"]
rasterLayerAdded(payload) == [type |-> "canvasV2/rasterLayerAdded", payload |-> payload]
controlLayerAdded(payload) == [type |-> "canvasV2/controlLayerAdded", payload |-> payload]
ipaAdded(payload) == [type |-> "canvasV2/ipaAdded", payload |-> payload]

Buttons == {"inpaintMask", "regionalGuidance", "rasterLayer", "controlLayer", "ipAdapter"}

addInpaintMask == canvasDispatched' = Append(canvasDispatched, inpaintMaskAdded)

addRegionalGuidance == canvasDispatched' = Append(canvasDispatched, rgAdded)

addRasterLayer ==
    canvasDispatched' = Append(canvasDispatched, rasterLayerAdded([isSelected |-> TRUE]))

\* a callback that closed over the adapter of the first render
addControlLayer_stale ==
    canvasDispatched' = Append(canvasDispatched,
        controlLayerAdded([isSelected |-> TRUE,
                           overrides |-> [controlAdapter |->
                               [type |-> "controlnet", model |-> "none"]]]))

addControlLayer ==
    canvasDispatched' = Append(canvasDispatched,
        controlLayerAdded([isSelected |-> TRUE,
                           overrides |-> [controlAdapter |-> defaultControlAdapter]]))

addIPAdapter ==
    canvasDispatched' = Append(canvasDispatched, ipaAdded([ipAdapter |-> defaultIPAdapter]))

\* the onClick wiring: which callback each button runs
Click(button) ==
    /\ Len(clicks) < MaxClicks
    /\ clicks' = Append(clicks, [button |-> button,
                                 controlAdapter |-> defaultControlAdapter,
                                 ipAdapter |-> defaultIPAdapter])
    /\ UNCHANGED <<defaultControlAdapter, defaultIPAdapter>>
    /\ UNCHANGED <<logVars, enqueueVars, opacityVars>>

ClickInpaintMask == Click("inpaintMask") /\ addInpaintMask
ClickRegionalGuidance == Click("regionalGuidance") /\ addRegionalGuidance
ClickRasterLayer == Click("rasterLayer") /\ addRasterLayer
ClickControlLayer == Click("controlLayer") /\ addControlLayer
ClickIPAdapter == Click("ipAdapter") /\ addIPAdapter

\* the hooks return another default (a model was installed or selected)
DefaultsChanged ==
    /\ \E ca \in ControlAdapters, ipa \in IPAdapters :
          /\ <<ca, ipa>> # <<defaultControlAdapter, defaultIPAdapter>>
          /\ defaultControlAdapter' = ca
          /\ defaultIPAdapter' = ipa
    /\ UNCHANGED <<canvasDispatched, clicks>>
    /\ UNCHANGED <<logVars, enqueueVars, opacityVars>>

(***************************************************************************)
(* addEnqueueRequestedNodes                                                *)
(***************************************************************************)

\* the editor states the model draws: the nodes and edges of the workflow
NodesStates ==
    {[name |-> "wf", nodes |-> ns, edges |-> es] :
        ns \in {{}, {"a", "b"}}, es \in {{}}}
    \cup {[name |-> "wf", nodes |-> {"a", "b"}, edges |-> {<<"a", "b">>}]}

TabNames == {"nodes", "generation"}

enqueueRequested(payload) == [type |-> "app/enqueueRequested", payload |-> payload]
nodesChanged(payload) == [type |-> "nodes/nodesChanged", payload |-> payload]
setIterations(payload) == [type |-> "generation/setIterations", payload |-> payload]

\* buildNodesGraph(state.nodes): the invocation graph of the editor's nodes
buildNodesGraph(nodesState) ==
    [kind |-> "graph", nodes |-> nodesState.nodes, edges |-> nodesState.edges]

\* buildWorkflow(state.nodes): the workflow document saved with the batch
buildWorkflow(nodesState) ==
    [kind |-> "workflow", name |-> nodesState.name,
     nodes |-> nodesState.nodes, edges |-> nodesState.edges]

\* the reducers of the slices the effect reads
rootReducer(state, action) ==
    CASE action.type = "nodes/nodesChanged" ->
            [state EXCEPT !.nodes = action.payload]
      [] action.type = "generation/setIterations" ->
            [state EXCEPT !.generation.iterations = action.payload]
      [] OTHER -> state

\* getState()
getState == [nodes |-> nodes, generation |-> [iterations |-> iterations]]

predicate_anyTab(action) == action.type = "app/enqueueRequested"

\* the listener's predicate
predicate(action) ==
    action.type = "app/enqueueRequested" /\ action.payload.tabName = "nodes"

\* queueApi.endpoints.enqueueBatch.initiate(arg, {fixedCacheKey}): the request
initiate(arg, options) ==
    [arg |-> arg, fixedCacheKey |-> options.fixedCacheKey, status |-> "pending"]

effect_noPrepend(action, state) ==
    LET graph == buildNodesGraph(state.nodes)
        workflow == buildWorkflow(state.nodes)
        batchConfig == [batch |-> [graph |-> graph, workflow |-> workflow,
                                   runs |-> state.generation.iterations],
                        prepend |-> FALSE]
    IN  /\ requests' = Append(requests,
                          initiate(batchConfig, [fixedCacheKey |-> "enqueueBatch"]))
        /\ mutationCache' = [status |-> "uninitialized"]

\* the listener's effect; state is what getState() returns when it runs
effect(action, state) ==
    LET graph == buildNodesGraph(state.nodes)
        workflow == buildWorkflow(state.nodes)
        batchConfig == [batch |-> [graph |-> graph, workflow |-> workflow,
                                   runs |-> state.generation.iterations],
                        prepend |-> action.payload.prepend]
    IN  \* dispatch(initiate(...)) starts the request; req.reset() drops the
        \* mutation entry kept under the fixed cache key
        /\ requests' = Append(requests,
                          initiate(batchConfig, [fixedCacheKey |-> "enqueueBatch"]))
        /\ mutationCache' = [status |-> "uninitialized"]

\* startAppListening({predicate, effect}): the middleware lets the reducers
\* run, then calls the effect of a matching action; the effect has no await,
\* so it runs to its end within the dispatch
StoreDispatch(action) ==
    LET state == rootReducer(getState, action) IN
    /\ Len(actionLog) < MaxActions
    /\ nodes' = state.nodes
    /\ iterations' = state.generation.iterations
    /\ actionLog' = Append(actionLog, [action |-> action, state |-> state])
    /\ IF predicate(action)
       THEN effect(action, state)
       ELSE UNCHANGED <<requests, mutationCache>>
    /\ UNCHANGED <<logVars, addVars, opacityVars>>

DispatchEnqueueRequested ==
    \E tabName \in TabNames, prepend \in BOOLEAN :
        StoreDispatch(enqueueRequested([tabName |-> tabName, prepend |-> prepend]))

DispatchNodesChanged ==
    \E n \in NodesStates \ {nodes} : StoreDispatch(nodesChanged(n))

DispatchSetIterations ==
    \E i \in (1..MaxIterations) \ {iterations} : StoreDispatch(setIterations(i))

\* the queue service answers a pending request; the mutation entry was reset,
\* so the answer updates no cache entry, and the listener does not see it
RequestSettles ==
    \E i \in DOMAIN requests, outcome \in {"fulfilled", "rejected"} :
        /\ requests[i].status = "pending"
        /\ requests' = [requests EXCEPT ![i].status = outcome]
        /\ UNCHANGED <<nodes, iterations, actionLog, mutationCache>>
        /\ UNCHANGED <<logVars, addVars, opacityVars>>

(***************************************************************************)
(* CanvasEntityOpacity                                                     *)
(***************************************************************************)

\* min and max of the number input and of the slider
SliderMin == 0
SliderMax == 100

\* the canvas of the model: one drawable layer and one IP adapter, which is
\* an entity without an opacity
EntityIdentifiers ==
    {[id |-> "layer1", type |-> "raster_layer"], [id |-> "ipa1", type |-> "ip_adapter"]}

\* the numbers a user can leave in the number input (clampValueOnBlur is
\* false, so they need not lie in min..max), and NaN for text that is no number
TypedNumbers == {NaN} \cup {N(x) : x \in {-50, 0, 30, 100, 150}}

Keys == {"Enter", "Escape", "a"}

\* selectEntity(state, identifier)
selectEntity(state, identifier) ==
    IF identifier.id \in DOMAIN state THEN state[identifier.id] ELSE Undefined

\* isDrawableEntity(entity)
isDrawableEntity(entity) ==
    entity.type \in {"raster_layer", "control_layer", "inpaint_mask", "regional_guidance"}

entityOpacityChanged(payload) ==
    [type |-> "canvasV2/entityOpacityChanged", payload |-> payload]

\* the canvasV2 reducer of entityOpacityChanged: it sets the opacity of the
\* entity named, when there is one and it is drawable
canvasV2Reducer(state, action) ==
    IF action.type # "canvasV2/entityOpacityChanged" THEN state
    ELSE LET entity == selectEntity(state, action.payload.entityIdentifier) IN
         IF entity = Undefined \/ ~isDrawableEntity(entity) THEN state
         ELSE [state EXCEPT ![entity.id].opacity = action.payload.opacity]

\* snapToNearest(value, candidateValues, threshold): the candidate closest to
\* value among those within threshold of it (the first of equally close
\* ones), and value itself when there is none
RECURSIVE snapLoop(_, _, _, _, _, _)
snapLoop(value, candidateValues, threshold, i, closest, minDiff) ==
    IF i > Len(candidateValues) THEN closest
    ELSE LET candidate == candidateValues[i]
             d == value.val - candidate.val
             diff == IF d < 0 THEN -d ELSE d
         IN  IF (minDiff.tag = "max" \/ diff < minDiff.val) /\ diff <= threshold.val
             THEN snapLoop(value, candidateValues, threshold, i + 1, candidate, Num(diff))
             ELSE snapLoop(value, candidateValues, threshold, i + 1, closest, minDiff)

snapToNearest(value, candidateValues, threshold) ==
    snapLoop(value, candidateValues, threshold, 1, value, [tag |-> "max"])

\* lodash clamp(number, lower, upper)
clamp(number, lower, upper) ==
    LET atLeast == IF number.val < lower.val THEN lower ELSE number
    IN  IF atLeast.val > upper.val THEN upper ELSE atLeast

\* isNaN(Number(v)) of a value that is a number or NaN
isNaN(v) == v.tag = "nan"

mapSliderValueToOpacity(value) == Num(value.val \div 100)

mapOpacityToSliderValue(opacity) == Num(opacity.val * 100)

marks ==
    << mapOpacityToSliderValue(Num(0)),
       mapOpacityToSliderValue(Num(25)),
       mapOpacityToSliderValue(Num(50)),
       mapOpacityToSliderValue(Num(75)),
       mapOpacityToSliderValue(Num(100)) >>

sliderDefaultValue == mapOpacityToSliderValue(N(100))

\* every mark a snap target, the two ends too
snapCandidates_all == marks

\* marks.slice(1, marks.length - 1)
snapCandidates == SubSeq(marks, 2, Len(marks) - 1)

\* the useAppSelector that reads the selected entity's opacity
opacitySelector(state, selected) ==
    IF selected = Null THEN Null
    ELSE LET selectedEntity == selectEntity(state, selected) IN
         IF selectedEntity = Undefined THEN Null
         ELSE IF ~isDrawableEntity(selectedEntity) THEN Null
         ELSE selectedEntity.opacity

opacity == opacitySelector(entities, selectedEntityIdentifier)

\* (opacity ?? 1) * 100
syncedValue(o) == mapOpacityToSliderValue(IF o = Null THEN N(1) ELSE o)

\* dispatch(action) from a handler: the reducer runs within the call
Dispatch(action) ==
    /\ dispatched' = <<action>>
    /\ entities' = canvasV2Reducer(entities, action)

NoDispatch ==
    /\ dispatched' = <<>>
    /\ entities' = entities

onChangeSlider(value, shift) ==
    /\ IF selectedEntityIdentifier = Null
       THEN NoDispatch
       ELSE LET snappedOpacity ==
                    IF ~shift THEN snapToNearest(value, snapCandidates, N(2)) ELSE value
                mappedOpacity == mapSliderValueToOpacity(snappedOpacity)
            IN  Dispatch(entityOpacityChanged(
                    [entityIdentifier |-> selectedEntityIdentifier,
                     opacity |-> mappedOpacity]))
    /\ localOpacity' = localOpacity

\* a blur that commits the local value as it is
onBlur_noClamp ==
    IF selectedEntityIdentifier = Null
    THEN NoDispatch /\ localOpacity' = localOpacity
    ELSE IF isNaN(localOpacity)
    THEN NoDispatch /\ localOpacity' = N(100)
    ELSE /\ Dispatch(entityOpacityChanged(
                [entityIdentifier |-> selectedEntityIdentifier,
                 opacity |-> Num(localOpacity.val \div 100)]))
         /\ localOpacity' = localOpacity

\* a blur that commits the default when the local value is no number
onBlur_nanCommits ==
    IF selectedEntityIdentifier = Null
    THEN NoDispatch /\ localOpacity' = localOpacity
    ELSE IF isNaN(localOpacity)
    THEN /\ Dispatch(entityOpacityChanged(
                [entityIdentifier |-> selectedEntityIdentifier, opacity |-> N(1)]))
         /\ localOpacity' = N(100)
    ELSE /\ Dispatch(entityOpacityChanged(
                [entityIdentifier |-> selectedEntityIdentifier,
                 opacity |-> clamp(Num(localOpacity.val \div 100), N(0), N(1))]))
         /\ localOpacity' = localOpacity

onBlur ==
    IF selectedEntityIdentifier = Null
    THEN NoDispatch /\ localOpacity' = localOpacity
    ELSE IF isNaN(localOpacity)
    THEN NoDispatch /\ localOpacity' = N(100)
    ELSE /\ Dispatch(entityOpacityChanged(
                [entityIdentifier |-> selectedEntityIdentifier,
                 opacity |-> clamp(Num(localOpacity.val \div 100), N(0), N(1))]))
         /\ localOpacity' = localOpacity

onChangeNumberInput(valueAsString, valueAsNumber) ==
    /\ localOpacity' = valueAsNumber
    /\ NoDispatch

\* a key handler that commits on every key
onKeyDown_anyKey(e) == onBlur

onKeyDown(e) ==
    IF e.key = "Enter"
    THEN onBlur
    ELSE NoDispatch /\ localOpacity' = localOpacity

\* the store changed the selector's result and the re-render it causes has
\* not run its effect yet
RenderPending == opacity # effectDep

\* an event reaches the component: React has flushed the pending render and
\* its effects before it runs the handler of a discrete event
Event(e) ==
    /\ ~RenderPending
    /\ lastEvent' = e
    /\ UNCHANGED <<selectedEntityIdentifier, effectDep>>
    /\ UNCHANGED <<logVars, addVars, enqueueVars>>

\* the slider is moved to v, with the shift key up or down
SliderEvent(v, shift) ==
    /\ Event([name |-> "onChangeSlider", value |-> N(v), shift |-> shift])
    /\ onChangeSlider(N(v), shift)

\* every position of the slider
SliderChange ==
    \E v \in SliderMin..SliderMax, shift \in BOOLEAN : SliderEvent(v, shift)

\* the positions at most SampleWidth away from a mark
SliderSamples ==
    {v \in SliderMin..SliderMax :
        \E i \in DOMAIN marks :
            /\ v * 100 - marks[i].val <= SampleWidth * 100
            /\ marks[i].val - v * 100 <= SampleWidth * 100}

SliderChangeSampled ==
    \E v \in SliderSamples, shift \in BOOLEAN : SliderEvent(v, shift)

Blur == Event([name |-> "onBlur"]) /\ onBlur

NumberInputChange ==
    \E valueAsNumber \in TypedNumbers :
        /\ Event([name |-> "onChangeNumberInput"])
        /\ onChangeNumberInput("", valueAsNumber)

KeyPressed(key) ==
    /\ Event([name |-> "onKeyDown", key |-> key])
    /\ onKeyDown([key |-> key])

KeyDown == \E key \in Keys : KeyPressed(key)

\* another part of the application selects an entity, or none
EntitySelected ==
    \E identifier \in {Null} \cup EntityIdentifiers :
        /\ identifier # selectedEntityIdentifier
        /\ ~RenderPending
        /\ selectedEntityIdentifier' = identifier
        /\ lastEvent' = [name |-> "entitySelected"]
        /\ dispatched' = <<>>
        /\ UNCHANGED <<entities, localOpacity, effectDep>>
        /\ UNCHANGED <<logVars, addVars, enqueueVars>>

\* useEffect(() => setLocalOpacity((opacity ?? 1) * 100), [opacity]): it runs
\* after a render in which opacity differs from the render before
useEffectSync ==
    /\ RenderPending
    /\ localOpacity' = syncedValue(opacity)
    /\ effectDep' = opacity
    /\ UNCHANGED <<entities, selectedEntityIdentifier, dispatched, lastEvent>>
    /\ UNCHANGED <<logVars, addVars, enqueueVars>>

(***************************************************************************)
(* Specifications                                                          *)
(***************************************************************************)

InitialEntities ==
    [id \in {"layer1", "ipa1"} |->
        IF id = "layer1"
        THEN [id |-> "layer1", type |-> "raster_layer", opacity |-> N(1)]
        ELSE [id |-> "ipa1", type |-> "ip_adapter"]]

\* the state once the components are mounted, with one of the identifiers in
\* selectable (or null) selected
InitSelecting(selectable) ==
    /\ logLevel = "debug"
    /\ logDispatched = <<>>
    /\ onChangeCalls = <<>>
    /\ defaultControlAdapter = [type |-> "controlnet", model |-> "none"]
    /\ defaultIPAdapter = [type |-> "ip_adapter", model |-> "none"]
    /\ canvasDispatched = <<>>
    /\ clicks = <<>>
    /\ nodes = [name |-> "wf", nodes |-> {}, edges |-> {}]
    /\ iterations = 1
    /\ actionLog = <<>>
    /\ requests = <<>>
    /\ mutationCache = [status |-> "uninitialized"]
    /\ entities = InitialEntities
    /\ selectedEntityIdentifier \in selectable
    /\ localOpacity = syncedValue(opacity)
    /\ effectDep = opacity
    /\ dispatched = <<>>
    /\ lastEvent = [name |-> "mount"]

Init == InitSelecting({Null})

InitSlider == InitSelecting({Null} \cup EntityIdentifiers)

NextLogLevel == LogLevelOnChange

NextAddEntity ==
    \/ ClickInpaintMask
    \/ ClickRegionalGuidance
    \/ ClickRasterLayer
    \/ ClickControlLayer
    \/ ClickIPAdapter
    \/ DefaultsChanged

NextEnqueue ==
    \/ DispatchEnqueueRequested
    \/ DispatchNodesChanged
    \/ DispatchSetIterations
    \/ RequestSettles

NextOpacity ==
    \/ SliderChangeSampled
    \/ Blur
    \/ NumberInputChange
    \/ KeyDown
    \/ EntitySelected
    \/ useEffectSync

NextSlider ==
    \/ SliderChange
    \/ useEffectSync

Next == NextLogLevel \/ NextAddEntity \/ NextEnqueue \/ NextOpacity \/ NextSlider

SpecLogLevel == Init /\ [][NextLogLevel]_vars
SpecAddEntity == Init /\ [][NextAddEntity]_vars
SpecEnqueue == Init /\ [][NextEnqueue]_vars
SpecOpacity == Init /\ [][NextOpacity]_vars
SpecSlider == InitSlider /\ [][NextSlider]_vars
Spec == Init /\ [][Next]_vars

(***************************************************************************)
(* Properties                                                              *)
(***************************************************************************)

\* ---- C1
\* an onChange argument that selects a valid log level
SelectsLogLevel(v) ==
    /\ v # Null
    /\ \E level \in zLogLevelOptions : v.value = Str(level)

RECURSIVE LevelsSelected(_)
\* the valid log levels among the arguments of a sequence of onChange calls
LevelsSelected(calls) ==
    IF calls = <<>> THEN <<>>
    ELSE LET rest == LevelsSelected(SubSeq(calls, 1, Len(calls) - 1))
             last == calls[Len(calls)]
         IN  IF SelectsLogLevel(last) THEN Append(rest, last.value.val) ELSE rest

\* C1: the selector rejects invalid values. The actions dispatched are
\* exactly one logLevelChanged per onChange call whose value is a valid log
\* level, in call order and carrying that level; a call with null or with any
\* other value dispatches nothing and leaves the stored level alone, so the
\* stored level is the last valid level selected (the initial one when there
\* is none) and is always a valid log level.
C1_InvalidSelectionsRejected ==
    LET levels == LevelsSelected(onChangeCalls) IN
    /\ Len(logDispatched) = Len(levels)
    /\ \A i \in DOMAIN levels :
          logDispatched[i] = [type |-> "system/logLevelChanged", payload |-> Str(levels[i])]
    /\ logLevel = IF levels = <<>> THEN "debug" ELSE levels[Len(levels)]
    /\ logLevel \in {"trace", "debug", "info", "warn", "error", "fatal"}

\* onChange was called with null, with a value that is no log level and with
\* "warn": one action was dispatched and "warn" is stored
C1_Witness ==
    /\ Len(onChangeCalls) = 3
    /\ onChangeCalls[1] = Null
    /\ onChangeCalls[2] = [label |-> "verbose", value |-> Str("verbose")]
    /\ onChangeCalls[3] = [label |-> "warn", value |-> Str("warn")]
    /\ Len(logDispatched) = 1
    /\ logLevel = "warn"

\* ---- C6
\* the action a click on a button must dispatch, given the defaults then
ExpectedAddAction(click) ==
    CASE click.button = "inpaintMask" -> [type |-> "canvasV2/inpaintMaskAdded"]
      [] click.button = "regionalGuidance" -> [type |-> "canvasV2/rgAdded"]
      [] click.button = "rasterLayer" ->
            [type |-> "canvasV2/rasterLayerAdded", payload |-> [isSelected |-> TRUE]]
      [] click.button = "controlLayer" ->
            [type |-> "canvasV2/controlLayerAdded",
             payload |-> [isSelected |-> TRUE,
                          overrides |-> [controlAdapter |-> click.controlAdapter]]]
      [] click.button = "ipAdapter" ->
            [type |-> "canvasV2/ipaAdded", payload |-> [ipAdapter |-> click.ipAdapter]]

AddActionType(button) ==
    CASE button = "inpaintMask" -> "canvasV2/inpaintMaskAdded"
      [] button = "regionalGuidance" -> "canvasV2/rgAdded"
      [] button = "rasterLayer" -> "canvasV2/rasterLayerAdded"
      [] button = "controlLayer" -> "canvasV2/controlLayerAdded"
      [] button = "ipAdapter" -> "canvasV2/ipaAdded"

\* C6: each click dispatches exactly one action, of the clicked button's own
\* kind and with its payload (isSelected = true, the default control adapter
\* or the default IP adapter current at the click), so for each button the
\* number of add-actions of its kind equals the number of clicks on it.
C6_OneAddActionPerClick ==
    /\ Len(canvasDispatched) = Len(clicks)
    /\ \A i \in DOMAIN clicks : canvasDispatched[i] = ExpectedAddAction(clicks[i])
    /\ \A b \in Buttons :
          Cardinality({i \in DOMAIN canvasDispatched :
                          canvasDispatched[i].type = AddActionType(b)})
              = Cardinality({i \in DOMAIN clicks : clicks[i].button = b})

\* a control layer and an IP adapter were added after the defaults changed
C6_Witness ==
    /\ Len(clicks) = 3
    /\ clicks[1].button = "rasterLayer"
    /\ clicks[2].button = "controlLayer"
    /\ clicks[2].controlAdapter.model = "canny"
    /\ clicks[3].button = "ipAdapter"
    /\ clicks[3].ipAdapter.model = "plus"
    /\ canvasDispatched[2].payload.overrides.controlAdapter.model = "canny"

\* ---- C3
\* a logged store action that the listener must answer
IsNodesEnqueue(entry) ==
    /\ entry.action.type = "app/enqueueRequested"
    /\ entry.action.payload.tabName = "nodes"

\* C3: one request per trigger, no retry. The number of enqueueBatch
\* requests initiated equals the number of processed store actions that are
\* enqueueRequested with tabName "nodes"; other actions, a settled or a
\* failed request add none.
C3_OneRequestPerTrigger ==
    Len(requests) = Cardinality({i \in DOMAIN actionLog : IsNodesEnqueue(actionLog[i])})

\* a request failed, and actions that do not match were processed too
C3_Witness ==
    /\ Len(actionLog) = MaxActions
    /\ \E i \in DOMAIN requests : requests[i].status = "rejected"
    /\ \E i \in DOMAIN actionLog :
          /\ actionLog[i].action.type = "app/enqueueRequested"
          /\ actionLog[i].action.payload.tabName = "generation"
    /\ \E i \in DOMAIN actionLog : actionLog[i].action.type = "nodes/nodesChanged"
    /\ Len(requests) = 1

\* ---- C4
\* C4: the i-th request carries the graph and the workflow built from the
\* nodes of the store state at the i-th matching action, that state's
\* iterations as runs, and that action's prepend flag; this stays so whatever
\* the store does afterwards.
C4_RequestSerializesSnapshot ==
    LET triggers == SelectSeq(actionLog, IsNodesEnqueue) IN
    /\ Len(requests) = Len(triggers)
    /\ \A i \in DOMAIN triggers :
          /\ requests[i].arg.batch.graph.nodes = triggers[i].state.nodes.nodes
          /\ requests[i].arg.batch.graph.edges = triggers[i].state.nodes.edges
          /\ requests[i].arg.batch.workflow.nodes = triggers[i].state.nodes.nodes
          /\ requests[i].arg.batch.workflow.edges = triggers[i].state.nodes.edges
          /\ requests[i].arg.batch.workflow.name = triggers[i].state.nodes.name
          /\ requests[i].arg.batch.runs = triggers[i].state.generation.iterations
          /\ requests[i].arg.prepend = triggers[i].action.payload.prepend

\* two requests that differ in graph, runs and prepend: the store changed
\* between them, and the first kept what it was issued with
C4_Witness ==
    /\ Len(requests) = 2
    /\ requests[1].arg.prepend
    /\ ~requests[2].arg.prepend
    /\ requests[1].arg.batch.runs = 1
    /\ requests[2].arg.batch.runs = 2
    /\ requests[1].arg.batch.graph.nodes = {}
    /\ requests[2].arg.batch.graph.nodes # {}
    /\ nodes.nodes # {}
    /\ iterations = 2

\* ---- C2
\* C2: a blur, or an Enter key press, with an entity selected and a local
\* value that is not a number sets the local value to 100, dispatches no
\* action and leaves every entity of the store as it was.
C2_NonNumericOpacityDefaulted ==
    [][ ( /\ Blur \/ KeyPressed("Enter")
          /\ selectedEntityIdentifier # Null
          /\ localOpacity = NaN )
        => /\ localOpacity' = Num(10000)
           /\ dispatched' = <<>>
           /\ entities' = entities ]_vars

\* after a blur on non-numeric text with the layer selected at opacity 0.5:
\* nothing was dispatched, 100 is displayed and the store still holds 0.5
C2_Witness ==
    /\ lastEvent.name = "onBlur"
    /\ selectedEntityIdentifier = [id |-> "layer1", type |-> "raster_layer"]
    /\ dispatched = <<>>
    /\ localOpacity = Num(10000)
    /\ entities["layer1"].opacity = Num(50)

\* ---- C5
\* C5: typing changes only the local value and dispatches nothing; an
\* action is dispatched only by a slider change, a blur or an Enter key
\* press, only with an entity selected, it is one entityOpacityChanged and it
\* names the selected entity; a key other than Enter changes nothing; with
\* no entity selected no step changes the store or dispatches, and a blur
\* keeps the local value; the store's entities change only in a step that
\* dispatches.
C5_OpacityChangesOnlyByCommit ==
    [][ /\ NumberInputChange =>
              /\ dispatched' = <<>>
              /\ entities' = entities
              /\ selectedEntityIdentifier' = selectedEntityIdentifier
        /\ dispatched' # <<>> =>
              /\ \/ lastEvent'.name \in {"onChangeSlider", "onBlur"}
                 \/ lastEvent'.name = "onKeyDown" /\ lastEvent'.key = "Enter"
              /\ selectedEntityIdentifier' # Null
              /\ Len(dispatched') = 1
              /\ dispatched'[1].type = "canvasV2/entityOpacityChanged"
              /\ dispatched'[1].payload.entityIdentifier = selectedEntityIdentifier'
        /\ (\E key \in Keys \ {"Enter"} : KeyPressed(key)) =>
              /\ dispatched' = <<>>
              /\ entities' = entities
              /\ localOpacity' = localOpacity
        /\ selectedEntityIdentifier = Null =>
              /\ dispatched' = <<>>
              /\ entities' = entities
              /\ Blur => localOpacity' = localOpacity
        /\ entities' # entities => dispatched' # <<>> ]_vars

\* Enter committed a typed 30 to the selected layer
C5_Witness ==
    /\ lastEvent = [name |-> "onKeyDown", key |-> "Enter"]
    /\ selectedEntityIdentifier = [id |-> "layer1", type |-> "raster_layer"]
    /\ Len(dispatched) = 1
    /\ dispatched[1].payload.entityIdentifier = selectedEntityIdentifier
    /\ dispatched[1].payload.opacity = Num(30)
    /\ entities["layer1"].opacity = Num(30)

\* ---- C7
\* C7: every opacity the component dispatches is a number in [0, 1], and so
\* is the opacity of the layer in the store.
C7_DispatchedOpacityInUnitRange ==
    /\ \A i \in DOMAIN dispatched :
          /\ dispatched[i].payload.opacity.tag = "num"
          /\ dispatched[i].payload.opacity.val >= 0
          /\ dispatched[i].payload.opacity.val <= 100
    /\ entities["layer1"].opacity.tag = "num"
    /\ entities["layer1"].opacity.val >= 0
    /\ entities["layer1"].opacity.val <= 100

\* a blur committed the typed 150 as opacity 1
C7_Witness ==
    /\ lastEvent.name = "onBlur"
    /\ localOpacity = Num(15000)
    /\ Len(dispatched) = 1
    /\ dispatched[1].payload.opacity = Num(100)

SnappedPercent(v, shift) ==
    IF shift THEN v
    ELSE IF \E m \in {25, 50, 75} : v - m \in -2..2
    THEN CHOOSE m \in {25, 50, 75} : v - m \in -2..2
    ELSE v

\* C9: a slider change to v with an entity selected dispatches one
\* entityOpacityChanged for that entity with opacity v / 100 when shift is
\* held, and otherwise m / 100 for the interior mark m of 25, 50, 75 within 2
\* of v, or v / 100 when there is none; 0 and 100 are no snap targets.
C9_SliderSnapping ==
    ( /\ lastEvent.name = "onChangeSlider"
      /\ selectedEntityIdentifier # Null )
    => dispatched =
          << [type |-> "canvasV2/entityOpacityChanged",
              payload |-> [entityIdentifier |-> selectedEntityIdentifier,
                           opacity |-> Num(SnappedPercent(lastEvent.value.val \div 100,
                                                          lastEvent.shift))]] >>

\* the slider at 27 without shift gave the layer the opacity 0.25
C9_Witness ==
    /\ lastEvent = [name |-> "onChangeSlider", value |-> Num(2700), shift |-> FALSE]
    /\ selectedEntityIdentifier = [id |-> "layer1", type |-> "raster_layer"]
    /\ Len(dispatched) = 1
    /\ dispatched[1].payload.opacity = Num(25)
    /\ entities["layer1"].opacity = Num(25)

====
